---- MODULE Spec2Model ----
(***************************************************************************)
(* Model of tockloader/board_interface.py: class BoardInterface.           *)
(*                                                                         *)
(* Python values are represented as follows.                               *)
(*   bytes / str      a sequence of byte values / of code points           *)
(*   Optional[x]      None is <<>>, a value v is <<v>>                     *)
(*   dict or None     a record with the flag "present" (Python truthiness) *)
(*   a call's outcome a record: kind is "return" or "raise"                *)
(***************************************************************************)
EXTENDS Integers, Sequences, FiniteSets, TLC

VARIABLES
    args,                \* self.args: the caller's configuration, per instance
    apps_start_address,  \* self.apps_start_address, per instance
    board,               \* self.board, per instance
    arch,                \* self.arch, per instance
    kernel_address,      \* self.kernel_address, per instance
    kernel_exists,       \* self.kernel_exists, per instance
    attributes,          \* the raw attribute slots on the board an instance talks to
    flash,               \* the flash of that board: address -> 10 bytes found there
    last,                \* the most recent call: who, what, its outcome, its transport calls
    raw,                 \* the buffer handed to _decode_attribute
    decoded              \* what _decode_attribute made of it

vars == <<args, apps_start_address, board, arch, kernel_address, kernel_exists,
          attributes, flash, last, raw, decoded>>

None == <<>>
Some(v) == <<v>>

----------------------------------------------------------------------------
(* Bounds of the model. *)

\* number of attribute slots on a board
MaxSlots == 2
\* number of leading key bytes drawn freely in a decode input (the rest is zero padding)
MaxKeyBytes == 3
\* number of value bytes drawn freely in a decode input
MaxValueBytes == 2

----------------------------------------------------------------------------
(* Program constants. *)

KeyFieldLen == 8
MaxValueLen == 55
MagicOffset == 1024
MagicLen == 10
DefaultKernelAddress == 65536
DefaultAppsAddress == 196608

\* 'kernaddr', 'appaddr', 'TockKernel' as code points
KERNADDR == <<107, 101, 114, 110, 97, 100, 100, 114>>
APPADDR == <<97, 112, 112, 97, 100, 100, 114>>
TOCKKERNEL == <<84, 111, 99, 107, 75, 101, 114, 110, 101, 108>>

----------------------------------------------------------------------------
(* bytes.decode('utf-8') *)

IsCont(b) == b \in 128..191

\* the range the second byte of a multi-byte sequence must lie in
SecondByteRange(b0) ==
    IF b0 = 224 THEN 160..191
    ELSE IF b0 = 237 THEN 128..159
    ELSE IF b0 = 240 THEN 144..191
    ELSE IF b0 = 244 THEN 128..143
    ELSE 128..191

RECURSIVE Utf8From(_, _, _)
Utf8From(b, i, acc) ==
    IF i > Len(b) THEN [ok |-> TRUE, str |-> acc]
    ELSE LET b0 == b[i] IN
        IF b0 < 128 THEN Utf8From(b, i + 1, Append(acc, b0))
        ELSE IF /\ b0 \in 194..223
                /\ i + 1 <= Len(b)
                /\ IsCont(b[i + 1])
        THEN Utf8From(b, i + 2, Append(acc, (b0 - 192) * 64 + (b[i + 1] - 128)))
        ELSE IF /\ b0 \in 224..239
                /\ i + 2 <= Len(b)
                /\ b[i + 1] \in SecondByteRange(b0)
                /\ IsCont(b[i + 2])
        THEN Utf8From(b, i + 3, Append(acc, (b0 - 224) * 4096 + (b[i + 1] - 128) * 64
                                            + (b[i + 2] - 128)))
        ELSE IF /\ b0 \in 240..244
                /\ i + 3 <= Len(b)
                /\ b[i + 1] \in SecondByteRange(b0)
                /\ IsCont(b[i + 2])
                /\ IsCont(b[i + 3])
        THEN Utf8From(b, i + 4, Append(acc, (b0 - 240) * 262144 + (b[i + 1] - 128) * 4096
                                            + (b[i + 2] - 128) * 64 + (b[i + 3] - 128)))
        ELSE [ok |-> FALSE, str |-> <<>>]    \* UnicodeDecodeError

decode_utf8(b) == Utf8From(b, 1, <<>>)

----------------------------------------------------------------------------
(* Slices and str.strip *)

Min(a, b) == IF a < b THEN a ELSE b

\* Python b[lo:hi] for 0 <= lo <= hi: clamped to the buffer, never an error
Slice(b, lo, hi) == SubSeq(b, lo + 1, Min(hi, Len(b)))

RECURSIVE lstrip(_, _)
lstrip(s, c) == IF s # <<>> /\ Head(s) = c THEN lstrip(Tail(s), c) ELSE s

RECURSIVE rstrip(_, _)
rstrip(s, c) ==
    IF s # <<>> /\ s[Len(s)] = c THEN rstrip(SubSeq(s, 1, Len(s) - 1), c) ELSE s

\* str.strip(chars) with a single character: both ends
strip(s, c) == rstrip(lstrip(s, c), c)

----------------------------------------------------------------------------
(* _decode_attribute *)

NoAttribute == [present |-> FALSE, key |-> <<>>, value |-> <<>>]

\* mutant: `if vlen >= 55 or vlen == 0`
EmptySlot_off_by_one(vlen) == vlen >= MaxValueLen \/ vlen = 0

\* `if vlen > 55 or vlen == 0`
EmptySlot(vlen) == vlen > MaxValueLen \/ vlen = 0

\* mutant: the value slice ends one byte early, `raw[9:8+vlen]`
_decode_attribute_short_value(r) ==
    LET k == decode_utf8(Slice(r, 0, KeyFieldLen)) IN
    IF ~k.ok THEN NoAttribute
    ELSE IF Len(r) < KeyFieldLen + 1 THEN NoAttribute
    ELSE LET vlen == r[KeyFieldLen + 1] IN
        IF EmptySlot(vlen) THEN NoAttribute
        ELSE LET v == decode_utf8(Slice(r, KeyFieldLen + 1, KeyFieldLen + vlen)) IN
            IF ~v.ok THEN NoAttribute
            ELSE [present |-> TRUE, key |-> strip(k.str, 0), value |-> v.str]

_decode_attribute(r) ==
    LET k == decode_utf8(Slice(r, 0, KeyFieldLen)) IN
    IF ~k.ok THEN NoAttribute                     \* UnicodeDecodeError, caught
    ELSE IF Len(r) < KeyFieldLen + 1 THEN NoAttribute    \* raw[8]: IndexError, caught
    ELSE LET vlen == r[KeyFieldLen + 1] IN
        IF EmptySlot(vlen) THEN NoAttribute
        ELSE LET v == decode_utf8(Slice(r, KeyFieldLen + 1, KeyFieldLen + 1 + vlen)) IN
            IF ~v.ok THEN NoAttribute             \* UnicodeDecodeError, caught
            ELSE [present |-> TRUE, key |-> strip(k.str, 0), value |-> v.str]

----------------------------------------------------------------------------
(* int(s, 0): a Python integer literal of ASCII characters, with optional   *)
(* surrounding whitespace, a sign, a base prefix and single underscores     *)
(* between digits. Any other character is not a digit.                      *)

IsSpace(c) == c \in {9, 10, 11, 12, 13, 32}

RECURSIVE lstripSpace(_)
lstripSpace(s) == IF s # <<>> /\ IsSpace(Head(s)) THEN lstripSpace(Tail(s)) ELSE s

RECURSIVE rstripSpace(_)
rstripSpace(s) ==
    IF s # <<>> /\ IsSpace(s[Len(s)]) THEN rstripSpace(SubSeq(s, 1, Len(s) - 1)) ELSE s

\* the value of a digit character, or 36 when it is none
DigitVal(c) ==
    IF c \in 48..57 THEN c - 48
    ELSE IF c \in 97..122 THEN c - 87
    ELSE IF c \in 65..90 THEN c - 55
    ELSE 36

\* the digits of s in the given base, -1 when s is not a digit string;
\* prev is "digit", "underscore" or "none" (nothing read yet)
RECURSIVE DigitsValue(_, _, _, _)
DigitsValue(s, base, acc, prev) ==
    IF s = <<>> THEN (IF prev = "digit" THEN acc ELSE -1)
    ELSE IF Head(s) = 95
    THEN (IF prev = "digit" THEN DigitsValue(Tail(s), base, acc, "underscore") ELSE -1)
    ELSE IF DigitVal(Head(s)) < base
    THEN DigitsValue(Tail(s), base, acc * base + DigitVal(Head(s)), "digit")
    ELSE -1

PrefixBase(c) ==
    IF c \in {120, 88} THEN 16
    ELSE IF c \in {111, 79} THEN 8
    ELSE IF c \in {98, 66} THEN 2
    ELSE 10

\* an unsigned literal: its value, or -1 when it is malformed
Magnitude(s) ==
    IF Len(s) >= 2 /\ s[1] = 48 /\ PrefixBase(s[2]) # 10
    THEN LET digits == SubSeq(s, 3, Len(s)) IN
         \* one underscore may follow the prefix
         IF digits # <<>> /\ Head(digits) = 95
         THEN DigitsValue(Tail(digits), PrefixBase(s[2]), 0, "none")
         ELSE DigitsValue(digits, PrefixBase(s[2]), 0, "none")
    ELSE LET v == DigitsValue(s, 10, 0, "none") IN
         \* a decimal literal starts with 0 only when it is zero
         IF s # <<>> /\ s[1] = 48 /\ v # 0 THEN -1 ELSE v

int0(str) ==
    LET s == rstripSpace(lstripSpace(str))
        signed == s # <<>> /\ s[1] \in {43, 45}
        m == Magnitude(IF signed THEN Tail(s) ELSE s)
    IN  IF m < 0 THEN [ok |-> FALSE, val |-> 0]        \* ValueError
        ELSE [ok |-> TRUE, val |-> IF signed /\ s[1] = 45 THEN 0 - m ELSE m]

----------------------------------------------------------------------------
(* Outcomes of a call and the transport calls it made *)

Returned(v) ==
    [kind |-> "return", val |-> Some(v), flag |-> None, name |-> None, exc |-> "none"]
ReturnedFlag(b) ==
    [kind |-> "return", val |-> None, flag |-> Some(b), name |-> None, exc |-> "none"]
ReturnedName(n) ==
    [kind |-> "return", val |-> None, flag |-> None, name |-> n, exc |-> "none"]
ReturnedNone ==
    [kind |-> "return", val |-> None, flag |-> None, name |-> None, exc |-> "none"]
Raised(e) ==
    [kind |-> "raise", val |-> None, flag |-> None, name |-> None, exc |-> e]

GetAllCall(ok) == [op |-> "get_all_attributes", address |-> 0, length |-> 0, ok |-> ok]
ReadCall(a, n, ok) == [op |-> "read_range", address |-> a, length |-> n, ok |-> ok]

----------------------------------------------------------------------------
(* The transport adapter: what the board answers. fails = the link breaks. *)

ErasedByte == 255

Erased(n) == [i \in 1..n |-> ErasedByte]

\* every slot of the board's table, decoded
get_all_attributes(self, fails) ==
    IF fails THEN [ok |-> FALSE, list |-> <<>>]      \* TransportError
    ELSE [ok |-> TRUE,
          list |-> [i \in 1..Len(attributes[self]) |-> _decode_attribute(attributes[self][i])]]

\* exactly length bytes starting at address
read_range(self, address, length, fails) ==
    IF fails THEN [ok |-> FALSE, bytes |-> <<>>]     \* TransportError
    ELSE IF address \in DOMAIN flash[self]
    THEN [ok |-> TRUE, bytes |-> SubSeq(flash[self][address], 1, length)]
    ELSE [ok |-> TRUE, bytes |-> Erased(length)]

----------------------------------------------------------------------------
(* get_kernel_start_address, get_apps_start_address.                        *)
(* A method is an operator of the instance (its board), the fields it reads *)
(* and the transport's behaviour; it yields the fields it writes, its       *)
(* outcome and the transport calls it made.                                 *)

\* `if attribute and attribute['key'] == key`
Matches(attribute, key) == attribute.present /\ attribute.key = key

\* `for attribute in attributes`: the index of the first match, 0 when there is none
RECURSIVE ScanFrom(_, _, _)
ScanFrom(list, key, i) ==
    IF i > Len(list) THEN 0
    ELSE IF Matches(list[i], key) THEN i
    ELSE ScanFrom(list, key, i + 1)

\* mutant: the loop does not return at the first match, the last match wins
FromAttributes_last(list, key, default) ==
    LET hits == {i \in 1..Len(list) : Matches(list[i], key)} IN
    IF hits # {}
    THEN int0(list[CHOOSE i \in hits : \A j \in hits : j <= i].value)
    ELSE [ok |-> TRUE, val |-> default]

\* the loop over the attributes and the default after it
FromAttributes(list, key, default) ==
    LET i == ScanFrom(list, key, 1) IN
    IF i # 0 THEN int0(list[i].value) ELSE [ok |-> TRUE, val |-> default]

\* mutant: `if self.kernel_address:` (a cached 0 counts as not cached)
KernelCached_truthy(ka) == ka # None /\ ka[1] # 0

\* `if self.kernel_address != None`
KernelCached(ka) == ka # None

\* mutant: the default is returned but not stored
get_kernel_start_address_default_not_cached(self, ka, afails) ==
    IF KernelCached(ka)
    THEN [kernel_address |-> ka, out |-> Returned(ka[1]), io |-> <<>>]
    ELSE LET got == get_all_attributes(self, afails) IN
        IF ~got.ok
        THEN [kernel_address |-> ka, out |-> Raised("TransportError"),
              io |-> <<GetAllCall(FALSE)>>]
        ELSE LET n == FromAttributes(got.list, KERNADDR, DefaultKernelAddress) IN
            IF n.ok
            THEN [kernel_address |->
                      IF ScanFrom(got.list, KERNADDR, 1) = 0 THEN ka ELSE Some(n.val),
                  out |-> Returned(n.val), io |-> <<GetAllCall(TRUE)>>]
            ELSE [kernel_address |-> ka, out |-> Raised("ValueError"),
                  io |-> <<GetAllCall(TRUE)>>]

\* mutant: a failed attribute read falls through to the default, which is cached
get_kernel_start_address_poisoned(self, ka, afails) ==
    IF KernelCached(ka)
    THEN [kernel_address |-> ka, out |-> Returned(ka[1]), io |-> <<>>]
    ELSE LET got == get_all_attributes(self, afails) IN
        IF ~got.ok
        THEN [kernel_address |-> Some(DefaultKernelAddress),
              out |-> Raised("TransportError"), io |-> <<GetAllCall(FALSE)>>]
        ELSE LET n == FromAttributes(got.list, KERNADDR, DefaultKernelAddress) IN
            IF n.ok
            THEN [kernel_address |-> Some(n.val), out |-> Returned(n.val),
                  io |-> <<GetAllCall(TRUE)>>]
            ELSE [kernel_address |-> ka, out |-> Raised("ValueError"),
                  io |-> <<GetAllCall(TRUE)>>]

get_kernel_start_address(self, ka, afails) ==
    IF KernelCached(ka)
    THEN [kernel_address |-> ka, out |-> Returned(ka[1]), io |-> <<>>]
    ELSE LET got == get_all_attributes(self, afails) IN
        IF ~got.ok
        THEN [kernel_address |-> ka, out |-> Raised("TransportError"),
              io |-> <<GetAllCall(FALSE)>>]
        ELSE LET n == FromAttributes(got.list, KERNADDR, DefaultKernelAddress) IN
            IF n.ok
            THEN [kernel_address |-> Some(n.val), out |-> Returned(n.val),
                  io |-> <<GetAllCall(TRUE)>>]
            ELSE [kernel_address |-> ka, out |-> Raised("ValueError"),
                  io |-> <<GetAllCall(TRUE)>>]

\* mutant: `if self.apps_start_address:` (an override of 0 counts as not given)
AppsCached_truthy(apps) == apps # None /\ apps[1] # 0

\* `if self.apps_start_address != None`
AppsCached(apps) == apps # None

\* mutant: the default is returned but not stored
get_apps_start_address_default_not_cached(self, apps, afails) ==
    IF AppsCached(apps)
    THEN [apps_start_address |-> apps, out |-> Returned(apps[1]), io |-> <<>>]
    ELSE LET got == get_all_attributes(self, afails) IN
        IF ~got.ok
        THEN [apps_start_address |-> apps, out |-> Raised("TransportError"),
              io |-> <<GetAllCall(FALSE)>>]
        ELSE LET n == FromAttributes(got.list, APPADDR, DefaultAppsAddress) IN
            IF n.ok
            THEN [apps_start_address |->
                      IF ScanFrom(got.list, APPADDR, 1) = 0 THEN apps ELSE Some(n.val),
                  out |-> Returned(n.val), io |-> <<GetAllCall(TRUE)>>]
            ELSE [apps_start_address |-> apps, out |-> Raised("ValueError"),
                  io |-> <<GetAllCall(TRUE)>>]

get_apps_start_address(self, apps, afails) ==
    IF AppsCached(apps)
    THEN [apps_start_address |-> apps, out |-> Returned(apps[1]), io |-> <<>>]
    ELSE LET got == get_all_attributes(self, afails) IN
        IF ~got.ok
        THEN [apps_start_address |-> apps, out |-> Raised("TransportError"),
              io |-> <<GetAllCall(FALSE)>>]
        ELSE LET n == FromAttributes(got.list, APPADDR, DefaultAppsAddress) IN
            IF n.ok
            THEN [apps_start_address |-> Some(n.val), out |-> Returned(n.val),
                  io |-> <<GetAllCall(TRUE)>>]
            ELSE [apps_start_address |-> apps, out |-> Raised("ValueError"),
                  io |-> <<GetAllCall(TRUE)>>]

----------------------------------------------------------------------------
(* kernel_is_present, bootloader_is_present, get_board_name, get_board_arch *)

\* mutant: `if self.kernel_exists:` (a cached False counts as not determined)
PresenceCached_truthy(ke) == ke # None /\ ke[1]

\* `if self.kernel_exists != None`
PresenceCached(ke) == ke # None

\* mutant: a marker read that fails counts as "no kernel", which is cached
kernel_is_present_poisoned(self, ke, ka, afails, rfails) ==
    IF PresenceCached(ke)
    THEN [kernel_exists |-> ke, kernel_address |-> ka,
          out |-> ReturnedFlag(ke[1]), io |-> <<>>]
    ELSE LET k == get_kernel_start_address(self, ka, afails) IN
        IF k.out.kind = "raise"
        THEN [kernel_exists |-> ke, kernel_address |-> k.kernel_address,
              out |-> k.out, io |-> k.io]
        ELSE LET magic_string_address == k.out.val[1] + MagicOffset
                 got == read_range(self, magic_string_address, MagicLen, rfails)
                 io == Append(k.io, ReadCall(magic_string_address, MagicLen, got.ok))
             IN
             IF ~got.ok
             THEN [kernel_exists |-> Some(FALSE), kernel_address |-> k.kernel_address,
                   out |-> Raised("TransportError"), io |-> io]
             ELSE LET magic_string == decode_utf8(got.bytes) IN
                 IF ~magic_string.ok
                 THEN [kernel_exists |-> ke, kernel_address |-> k.kernel_address,
                       out |-> Raised("UnicodeDecodeError"), io |-> io]
                 ELSE [kernel_exists |-> Some(magic_string.str = TOCKKERNEL),
                       kernel_address |-> k.kernel_address,
                       out |-> ReturnedFlag(magic_string.str = TOCKKERNEL), io |-> io]

kernel_is_present(self, ke, ka, afails, rfails) ==
    IF PresenceCached(ke)
    THEN [kernel_exists |-> ke, kernel_address |-> ka,
          out |-> ReturnedFlag(ke[1]), io |-> <<>>]
    ELSE LET k == get_kernel_start_address(self, ka, afails) IN
        IF k.out.kind = "raise"
        THEN [kernel_exists |-> ke, kernel_address |-> k.kernel_address,
              out |-> k.out, io |-> k.io]
        ELSE LET magic_string_address == k.out.val[1] + MagicOffset
                 got == read_range(self, magic_string_address, MagicLen, rfails)
                 io == Append(k.io, ReadCall(magic_string_address, MagicLen, got.ok))
             IN
             IF ~got.ok
             THEN [kernel_exists |-> ke, kernel_address |-> k.kernel_address,
                   out |-> Raised("TransportError"), io |-> io]
             ELSE LET magic_string == decode_utf8(got.bytes) IN
                 IF ~magic_string.ok
                 THEN [kernel_exists |-> ke, kernel_address |-> k.kernel_address,
                       out |-> Raised("UnicodeDecodeError"), io |-> io]
                 ELSE [kernel_exists |-> Some(magic_string.str = TOCKKERNEL),
                       kernel_address |-> k.kernel_address,
                       out |-> ReturnedFlag(magic_string.str = TOCKKERNEL), io |-> io]

\* mutant: "not detected" is reported as absent
bootloader_is_present_absent(self) == ReturnedFlag(FALSE)

bootloader_is_present(self) == ReturnedNone

get_board_name(self) == ReturnedName(board[self])

get_board_arch(self) == ReturnedName(arch[self])

----------------------------------------------------------------------------
(* The inputs of the model *)

SeqsUpTo(S, n) == UNION {[1..k -> S] : k \in 0..n}

\* a key right-padded with zero bytes to the key field
Pad(key) == key \o [i \in 1..(KeyFieldLen - Len(key)) |-> 0]

\* a slot as it lies in flash: key field, length byte, value
MkRaw(key, vlen, value) == Pad(key) \o <<vlen>> \o value

Attr(key, value) == MkRaw(key, Len(value), value)

\* "0x20000", "0", "zz", "0x8000", "010"
KernValues == {<<48, 120, 50, 48, 48, 48, 48>>, <<48>>, <<122, 122>>}
AppsValues == {<<48, 120, 56, 48, 48, 48>>, <<48, 49, 48>>}

\* what a slot of the attribute table may hold: erased flash or an attribute
RawSlots ==
    {Erased(KeyFieldLen + 1)}
        \cup {Attr(KERNADDR, v) : v \in KernValues}
        \cup {Attr(APPADDR, v) : v \in AppsValues}

\* the addresses a kernel may start at, and where its marker then lies
KernelAddrs == {DefaultKernelAddress} \cup {int0(v).val : v \in {w \in KernValues : int0(w).ok}}
MarkerAddrs == {a + MagicOffset : a \in KernelAddrs}

\* what may lie at a marker address: the marker, erased flash, other text
OtherText == [TOCKKERNEL EXCEPT ![MagicLen] = 120]
MarkerContents == {TOCKKERNEL, Erased(MagicLen), OtherText}

\* the caller's configuration
ArgsChoices ==
    {[app_address |-> a, board |-> b[1], arch |-> b[2]] :
        a \in {None, Some(0), Some(16384)},
        b \in {<<None, None>>, <<Some("hail"), Some("cortex-m4")>>}}

\* buffers handed to _decode_attribute
KeyAlphabet == {0, 97, 195, 169}
ValueAlphabet == {48, 195, 169}
LengthBytes == {0, 1, 2, 3, MaxValueLen, MaxValueLen + 1, 255}
DecodeKeys ==
    {Pad(k) : k \in SeqsUpTo(KeyAlphabet, MaxKeyBytes)}
        \cup {KERNADDR, [KERNADDR EXCEPT ![KeyFieldLen] = 195]}
DecodeInputs ==
    {k \o <<l>> \o v : k \in DecodeKeys, l \in LengthBytes,
                       v \in SeqsUpTo(ValueAlphabet, MaxValueBytes)}
        \cup {SubSeq(k, 1, n) : k \in DecodeKeys, n \in 0..KeyFieldLen}
        \cup {MkRaw(KERNADDR, l, [i \in 1..n |-> 48]) :
                l \in {MaxValueLen, MaxValueLen + 1}, n \in {MaxValueLen, MaxValueLen + 1}}

----------------------------------------------------------------------------
(* __init__ *)

Construct(instances) ==
    /\ args \in [instances -> ArgsChoices]
    /\ apps_start_address = [self \in instances |-> args[self].app_address]
    /\ board = [self \in instances |-> args[self].board]
    /\ arch = [self \in instances |-> args[self].arch]
    /\ kernel_address = [self \in instances |-> None]
    /\ kernel_exists = [self \in instances |-> None]

\* one instance on one board; the marker addresses of the board all hold the same content
Init ==
    /\ Construct({1})
    /\ attributes \in [{1} -> [1..MaxSlots -> RawSlots]]
    /\ flash \in {[self \in {1} |-> [a \in MarkerAddrs |-> c]] : c \in MarkerContents}
    /\ last = [self |-> 1, op |-> "__init__", out |-> ReturnedNone, io |-> <<>>]
    /\ raw = <<>>
    /\ decoded = None

Instances == DOMAIN kernel_address

----------------------------------------------------------------------------
(* The calls on an instance *)

Call(self, op, out, io) == last' = [self |-> self, op |-> op, out |-> out, io |-> io]

\* mutant: kernel_address is an attribute of the class, shared by the instances
GetKernelStartAddress_shared(self) ==
    \E afails \in BOOLEAN :
        LET r == get_kernel_start_address(self, kernel_address[self], afails) IN
        /\ kernel_address' = [t \in Instances |-> r.kernel_address]
        /\ Call(self, "get_kernel_start_address", r.out, r.io)
        /\ UNCHANGED <<args, apps_start_address, board, arch, kernel_exists,
                       attributes, flash, raw, decoded>>

GetKernelStartAddress(self) ==
    \E afails \in BOOLEAN :
        LET r == get_kernel_start_address(self, kernel_address[self], afails) IN
        /\ kernel_address' = [kernel_address EXCEPT ![self] = r.kernel_address]
        /\ Call(self, "get_kernel_start_address", r.out, r.io)
        /\ UNCHANGED <<args, apps_start_address, board, arch, kernel_exists,
                       attributes, flash, raw, decoded>>

\* mutant: the resolved address is stored in kernel_address as well
GetAppsStartAddress_clobbers(self) ==
    \E afails \in BOOLEAN :
        LET r == get_apps_start_address(self, apps_start_address[self], afails) IN
        /\ apps_start_address' = [apps_start_address EXCEPT ![self] = r.apps_start_address]
        /\ kernel_address' = [kernel_address EXCEPT ![self] = r.apps_start_address]
        /\ Call(self, "get_apps_start_address", r.out, r.io)
        /\ UNCHANGED <<args, board, arch, kernel_exists,
                       attributes, flash, raw, decoded>>

GetAppsStartAddress(self) ==
    \E afails \in BOOLEAN :
        LET r == get_apps_start_address(self, apps_start_address[self], afails) IN
        /\ apps_start_address' = [apps_start_address EXCEPT ![self] = r.apps_start_address]
        /\ Call(self, "get_apps_start_address", r.out, r.io)
        /\ UNCHANGED <<args, board, arch, kernel_address, kernel_exists,
                       attributes, flash, raw, decoded>>

KernelIsPresent(self) ==
    \E afails \in BOOLEAN, rfails \in BOOLEAN :
        LET r == kernel_is_present(self, kernel_exists[self], kernel_address[self],
                                  afails, rfails) IN
        /\ kernel_exists' = [kernel_exists EXCEPT ![self] = r.kernel_exists]
        /\ kernel_address' = [kernel_address EXCEPT ![self] = r.kernel_address]
        /\ Call(self, "kernel_is_present", r.out, r.io)
        /\ UNCHANGED <<args, apps_start_address, board, arch,
                       attributes, flash, raw, decoded>>

BootloaderIsPresent(self) ==
    /\ Call(self, "bootloader_is_present", bootloader_is_present(self), <<>>)
    /\ UNCHANGED <<args, apps_start_address, board, arch, kernel_address, kernel_exists,
                   attributes, flash, raw, decoded>>

GetBoardName(self) ==
    /\ Call(self, "get_board_name", get_board_name(self), <<>>)
    /\ UNCHANGED <<args, apps_start_address, board, arch, kernel_address, kernel_exists,
                   attributes, flash, raw, decoded>>

GetBoardArch(self) ==
    /\ Call(self, "get_board_arch", get_board_arch(self), <<>>)
    /\ UNCHANGED <<args, apps_start_address, board, arch, kernel_address, kernel_exists,
                   attributes, flash, raw, decoded>>

----------------------------------------------------------------------------
(* Writes to the board through the adapter *)

set_attribute(self, index, r) ==
    [attributes EXCEPT ![self][index] = r]

flash_binary(self, address, binary) ==
    [flash EXCEPT ![self][address] = binary]

erase_page(self, address) ==
    [flash EXCEPT ![self][address] = Erased(MagicLen)]

SetAttribute(self) ==
    \E index \in 1..Len(attributes[self]), r \in RawSlots :
        /\ attributes' = set_attribute(self, index, r)
        /\ Call(self, "set_attribute", ReturnedNone, <<>>)
        /\ UNCHANGED <<args, apps_start_address, board, arch, kernel_address,
                       kernel_exists, flash, raw, decoded>>

FlashBinary(self) ==
    \E address \in DOMAIN flash[self], binary \in MarkerContents \ {Erased(MagicLen)} :
        /\ flash' = flash_binary(self, address, binary)
        /\ Call(self, "flash_binary", ReturnedNone, <<>>)
        /\ UNCHANGED <<args, apps_start_address, board, arch, kernel_address,
                       kernel_exists, attributes, raw, decoded>>

ErasePage(self) ==
    \E address \in DOMAIN flash[self] :
        /\ flash' = erase_page(self, address)
        /\ Call(self, "erase_page", ReturnedNone, <<>>)
        /\ UNCHANGED <<args, apps_start_address, board, arch, kernel_address,
                       kernel_exists, attributes, raw, decoded>>

\* address resolution: every call on an instance, and writes to the attribute table
Next ==
    \E self \in Instances :
        \/ GetKernelStartAddress(self)
        \/ GetAppsStartAddress(self)
        \/ KernelIsPresent(self)
        \/ BootloaderIsPresent(self)
        \/ GetBoardName(self)
        \/ GetBoardArch(self)
        \/ SetAttribute(self)

Spec == Init /\ [][Next]_vars

----------------------------------------------------------------------------
(* Kernel presence: every flash content at every marker address, rewritten *)
(* and erased between the calls; the table holds 'kernaddr' slots only.    *)

PresenceSlots == {Erased(KeyFieldLen + 1)} \cup {Attr(KERNADDR, v) : v \in KernValues}

InitPresence ==
    /\ Construct({1})
    /\ args[1] = [app_address |-> None, board |-> None, arch |-> None]
    /\ attributes \in [{1} -> [1..MaxSlots -> PresenceSlots]]
    /\ flash \in [{1} -> [MarkerAddrs -> MarkerContents]]
    /\ last = [self |-> 1, op |-> "__init__", out |-> ReturnedNone, io |-> <<>>]
    /\ raw = <<>>
    /\ decoded = None

SetKernelAttribute(self) ==
    \E index \in 1..Len(attributes[self]), r \in PresenceSlots :
        /\ attributes' = set_attribute(self, index, r)
        /\ Call(self, "set_attribute", ReturnedNone, <<>>)
        /\ UNCHANGED <<args, apps_start_address, board, arch, kernel_address,
                       kernel_exists, flash, raw, decoded>>

NextPresence ==
    \E self \in Instances :
        \/ GetKernelStartAddress(self)
        \/ KernelIsPresent(self)
        \/ SetKernelAttribute(self)
        \/ FlashBinary(self)
        \/ ErasePage(self)

SpecPresence == InitPresence /\ [][NextPresence]_vars

----------------------------------------------------------------------------
(* Two sessions, each on a board of its own: board 1 holds a 'kernaddr'     *)
(* attribute and the kernel marker, board 2 an 'appaddr' attribute and      *)
(* other text where a marker would lie.                                     *)

TwoArgs ==
    {[app_address |-> None, board |-> None, arch |-> None],
     [app_address |-> Some(16384), board |-> Some("hail"), arch |-> Some("cortex-m4")]}

TwoBoardsTable(self) ==
    [i \in 1..MaxSlots |->
        IF i < MaxSlots THEN Erased(KeyFieldLen + 1)
        ELSE IF self = 1 THEN Attr(KERNADDR, <<48, 120, 50, 48, 48, 48, 48>>)
        ELSE Attr(APPADDR, <<48, 120, 56, 48, 48, 48>>)]

InitTwo ==
    /\ Construct({1, 2})
    /\ \A self \in {1, 2} : args[self] \in TwoArgs
    /\ attributes = [self \in {1, 2} |-> TwoBoardsTable(self)]
    /\ flash = [self \in {1, 2} |->
                   [a \in MarkerAddrs |-> IF self = 1 THEN TOCKKERNEL ELSE OtherText]]
    /\ last = [self |-> 1, op |-> "__init__", out |-> ReturnedNone, io |-> <<>>]
    /\ raw = <<>>
    /\ decoded = None

NextTwo ==
    \E self \in Instances :
        \/ GetKernelStartAddress(self)
        \/ GetAppsStartAddress(self)
        \/ KernelIsPresent(self)
        \/ BootloaderIsPresent(self)
        \/ GetBoardName(self)
        \/ GetBoardArch(self)

SpecTwo == InitTwo /\ [][NextTwo]_vars

----------------------------------------------------------------------------
(* _decode_attribute on its own: every input buffer, decoded once *)

InitDecode ==
    /\ Construct({1})
    /\ args[1] = [app_address |-> None, board |-> None, arch |-> None]
    /\ attributes = [self \in {1} |-> [i \in 1..MaxSlots |-> Erased(KeyFieldLen + 1)]]
    /\ flash = [self \in {1} |-> [a \in MarkerAddrs |-> Erased(MagicLen)]]
    /\ last = [self |-> 1, op |-> "__init__", out |-> ReturnedNone, io |-> <<>>]
    /\ raw \in DecodeInputs
    /\ decoded = None

DecodeAttribute ==
    /\ decoded = None
    /\ decoded' = Some(_decode_attribute(raw))
    /\ UNCHANGED <<args, apps_start_address, board, arch, kernel_address, kernel_exists,
                   attributes, flash, last, raw>>

\* str.encode('utf-8')
Utf8Bytes(cp) ==
    IF cp < 128 THEN <<cp>>
    ELSE IF cp < 2048 THEN <<192 + (cp \div 64), 128 + (cp % 64)>>
    ELSE IF cp < 65536
    THEN <<224 + (cp \div 4096), 128 + ((cp \div 64) % 64), 128 + (cp % 64)>>
    ELSE <<240 + (cp \div 262144), 128 + ((cp \div 4096) % 64),
           128 + ((cp \div 64) % 64), 128 + (cp % 64)>>

RECURSIVE encode_utf8(_)
encode_utf8(str) ==
    IF str = <<>> THEN <<>> ELSE Utf8Bytes(Head(str)) \o encode_utf8(Tail(str))

\* a record as a slot: the key right-padded with zero bytes to the key field, the
\* length byte, the value
encode_attribute(a) ==
    Pad(encode_utf8(a.key)) \o <<Len(encode_utf8(a.value))>> \o encode_utf8(a.value)

\* the record is written back as a slot and the slot decoded again
RoundTrip ==
    /\ decoded # None
    /\ decoded[1].present
    /\ raw' = encode_attribute(decoded[1])
    /\ decoded' = Some(_decode_attribute(raw'))
    /\ last' = [last EXCEPT !.op = "_decode_attribute"]
    /\ UNCHANGED <<args, apps_start_address, board, arch, kernel_address, kernel_exists,
                   attributes, flash>>

NextDecode == DecodeAttribute \/ RoundTrip

SpecDecode == InitDecode /\ [][NextDecode]_vars

----------------------------------------------------------------------------
(* Properties *)

\* the most recent call was op on self
IsCall(rec, self, op) == rec.self = self /\ rec.op = op

\* the call read the attribute table, and the read failed / succeeded
AttrReadFailed(rec) == rec.io # <<>> /\ rec.io[1].op = "get_all_attributes" /\ ~rec.io[1].ok
AttrReadOk(rec) == rec.io # <<>> /\ rec.io[1].op = "get_all_attributes" /\ rec.io[1].ok

\* what the call yields in a newly constructed session on the same board
FreshKernel(self) == get_kernel_start_address(self, None, FALSE)
FreshApps(self) == get_apps_start_address(self, None, FALSE)

\* C1: a transport failure during address resolution propagates to the caller and
\* leaves the cache of the address unset; the call after the failed one, with a
\* working transport, yields what it yields in a fresh session on that board.
C1_TransportFailureNotCached ==
    [][\A self \in Instances :
        /\ (IsCall(last', self, "get_kernel_start_address") /\ AttrReadFailed(last'))
            => /\ last'.out = Raised("TransportError")
               /\ kernel_address'[self] = None
        /\ (IsCall(last', self, "get_apps_start_address") /\ AttrReadFailed(last'))
            => /\ last'.out = Raised("TransportError")
               /\ apps_start_address'[self] = None
        /\ ( /\ IsCall(last, self, "get_kernel_start_address")
             /\ last.out = Raised("TransportError")
             /\ IsCall(last', self, "get_kernel_start_address")
             /\ ~AttrReadFailed(last') )
            => /\ last'.out = FreshKernel(self).out
               /\ kernel_address'[self] = FreshKernel(self).kernel_address
        /\ ( /\ IsCall(last, self, "get_apps_start_address")
             /\ last.out = Raised("TransportError")
             /\ IsCall(last', self, "get_apps_start_address")
             /\ ~AttrReadFailed(last') )
            => /\ last'.out = FreshApps(self).out
               /\ apps_start_address'[self] = FreshApps(self).apps_start_address
      ]_vars

\* a kernel address resolution has just failed on the transport, on a board whose
\* table holds a 'kernaddr' the retry will find
C1_Witness ==
    /\ last.op = "get_kernel_start_address"
    /\ last.out = Raised("TransportError")
    /\ kernel_address[last.self] = None
    /\ FreshKernel(last.self).out.kind = "return"
    /\ FreshKernel(last.self).out.val # Some(DefaultKernelAddress)

\* C2: once get_kernel_start_address has returned a value, that value is cached,
\* the cache never changes again, and every later call returns it without a
\* transport call, whatever was done to the board in between.
C2_KernelAddressIdempotent ==
    [][\A self \in Instances :
        /\ (IsCall(last', self, "get_kernel_start_address") /\ last'.out.kind = "return")
            => kernel_address'[self] = last'.out.val
        /\ kernel_address[self] # None
            => /\ kernel_address'[self] = kernel_address[self]
               /\ IsCall(last', self, "get_kernel_start_address")
                    => /\ last'.out = Returned(kernel_address[self][1])
                       /\ last'.io = <<>>
      ]_vars

\* a call answered from the cache although the board's table now resolves otherwise
C2_Witness ==
    /\ last.op = "get_kernel_start_address"
    /\ last.io = <<>>
    /\ last.out = Returned(0)
    /\ FreshKernel(last.self).out # last.out

\* the transport call the most recent call ended with
LastIo(rec) == rec.io[Len(rec.io)]

\* the most recent call read the marker from flash, and the read succeeded
MarkerReadOk(rec) == rec.io # <<>> /\ LastIo(rec).op = "read_range" /\ LastIo(rec).ok

\* C3 (as claimed): with the kernel start address resolved to A, kernel_is_present
\* reads exactly 10 bytes at A + 1024, returns true iff they are "TockKernel" and
\* false for every other content, undecodable bytes included, and caches the answer.
C3_KernelPresenceDetection ==
    \A self \in Instances :
        (IsCall(last, self, "kernel_is_present") /\ MarkerReadOk(last))
            => /\ kernel_address[self] # None
               /\ LastIo(last).address = kernel_address[self][1] + MagicOffset
               /\ LastIo(last).length = MagicLen
               /\ last.out = ReturnedFlag(flash[self][LastIo(last).address] = TOCKKERNEL)
               /\ kernel_exists[self] = last.out.flag

\* C4 (as claimed): whatever attribute table the transport returns, address
\* resolution does not raise.
C4_MalformedAttributeNeverRaises ==
    \A self \in Instances :
        ( /\ \/ IsCall(last, self, "get_kernel_start_address")
             \/ IsCall(last, self, "get_apps_start_address")
          /\ AttrReadOk(last) )
            => last.out.kind = "return"

\* C5: with an override app_address = V the cache holds V in every state, and
\* get_apps_start_address returns V without a transport call.
C5_AppsOverrideWins ==
    \A self \in Instances :
        args[self].app_address # None
            => /\ apps_start_address[self] = args[self].app_address
               /\ IsCall(last, self, "get_apps_start_address")
                    => /\ last.out = Returned(args[self].app_address[1])
                       /\ last.io = <<>>

\* the override 0 was returned on a board whose 'appaddr' attribute says 0x8000
C5_Witness ==
    /\ last.op = "get_apps_start_address"
    /\ args[last.self].app_address = Some(0)
    /\ last.out = Returned(0)
    /\ FreshApps(last.self).out = Returned(32768)

\* the board's table as the transport hands it over, and the slots holding key
DecodedTable(self) ==
    [i \in 1..Len(attributes[self]) |-> _decode_attribute(attributes[self][i])]
SlotsWithKey(self, key) ==
    {i \in 1..Len(attributes[self]) :
        DecodedTable(self)[i].present /\ DecodedTable(self)[i].key = key}
FirstSlotWithKey(self, key) ==
    CHOOSE i \in SlotsWithKey(self, key) : \A j \in SlotsWithKey(self, key) : i <= j

\* what the fallback chain resolves to on the board's table: the integer value of
\* the first slot holding key, the default when no slot holds it. Holds trivially
\* when the first such slot has no integer value.
ResolvesTo(self, key, default, out, cache) ==
    IF SlotsWithKey(self, key) = {}
    THEN out = Returned(default) /\ cache = Some(default)
    ELSE LET n == int0(DecodedTable(self)[FirstSlotWithKey(self, key)].value) IN
         n.ok => (out = Returned(n.val) /\ cache = Some(n.val))

C8_KernelPresenceCached ==
    [][\A self \in Instances :
        /\ (IsCall(last', self, "kernel_is_present") /\ last'.out.kind = "return")
            => kernel_exists'[self] = last'.out.flag
        /\ kernel_exists[self] # None
            => /\ kernel_exists'[self] = kernel_exists[self]
               /\ IsCall(last', self, "kernel_is_present")
                    => /\ last'.out = ReturnedFlag(kernel_exists[self][1])
                       /\ last'.io = <<>>
      ]_vars

\* false was answered from the cache although the marker has been flashed since
C8_Witness ==
    /\ last.op = "kernel_is_present"
    /\ last.io = <<>>
    /\ last.out = ReturnedFlag(FALSE)
    /\ flash[last.self][kernel_address[last.self][1] + MagicOffset] = TOCKKERNEL

\* the other outcome: true answered from the cache although the page was erased since
C8_WitnessTrue ==
    /\ last.op = "kernel_is_present"
    /\ last.io = <<>>
    /\ last.out = ReturnedFlag(TRUE)
    /\ flash[last.self][kernel_address[last.self][1] + MagicOffset] = Erased(MagicLen)

\* a buffer is well-formed: it holds a length byte in 1..55, and its key field and
\* the value bytes it holds are valid UTF-8
WellFormed(r) ==
    /\ Len(r) >= 9
    /\ r[9] \in 1..55
    /\ decode_utf8(SubSeq(r, 1, 8)).ok
    /\ decode_utf8(SubSeq(r, 10, Min(9 + r[9], Len(r)))).ok

\* C9: _decode_attribute yields a record iff the buffer is well-formed, and
\* 'absent' otherwise: for a length byte of 0 or above 55 whatever the other bytes,
\* for undecodable key or value bytes, for a buffer without a length byte.
C9_DecodeRecordIffWellFormed ==
    decoded # None
        => /\ decoded[1].present <=> WellFormed(raw)
           /\ ~decoded[1].present => decoded[1] = NoAttribute

\* a buffer with valid text and the length byte 55 was decoded to a record
C9_Witness ==
    /\ decoded # None
    /\ decoded[1].present
    /\ raw[9] = 55
    /\ Len(raw) = 64

\* a buffer with valid text was decoded to 'absent' for its length byte 56 alone
C9_WitnessAbsent ==
    /\ decoded # None
    /\ ~decoded[1].present
    /\ Len(raw) >= 9
    /\ raw[9] = 56
    /\ decode_utf8(SubSeq(raw, 1, 8)).ok
    /\ decode_utf8(SubSeq(raw, 10, Len(raw))).ok

\* C10 (as claimed): the key of a record is bytes 0-7 of the buffer without the
\* trailing zero bytes; zero bytes at the start or in the middle are kept.
C10_KeyTrailingPaddingOnly ==
    (decoded # None /\ decoded[1].present)
        => decoded[1].key = decode_utf8(rstrip(SubSeq(raw, 1, 8), 0)).str

\* C11 (as claimed): a record decoded from a buffer with length byte L in 1..55
\* holds a value of exactly L bytes, bytes 9 .. 9+L-1 of the buffer; a buffer
\* shorter than 9+L yields no record with a shorter value.
C11_ValueHasExactlyLBytes ==
    (decoded # None /\ decoded[1].present /\ Len(raw) >= 9 /\ raw[9] \in 1..55)
        => /\ Len(raw) >= 9 + raw[9]
           /\ decoded[1].value = decode_utf8(SubSeq(raw, 10, 9 + raw[9])).str

\* the caches of a newly constructed instance
Cold(self) ==
    /\ kernel_address[self] = None
    /\ kernel_exists[self] = None
    /\ apps_start_address[self] = args[self].app_address

\* C12: every instance starts with kernel_address and kernel_exists unset and
\* apps_start_address unset unless an override was given, and no call on one
\* instance changes a cached field of another instance.
C12_ColdStartAndIsolation ==
    /\ \A self \in Instances : Cold(self)
    /\ [][\A self \in Instances : \A other \in Instances \ {self} :
            last'.self = self
                => /\ kernel_address'[other] = kernel_address[other]
                   /\ kernel_exists'[other] = kernel_exists[other]
                   /\ apps_start_address'[other] = apps_start_address[other]
         ]_vars

\* both sessions have resolved everything, each to the answers of its own board
C12_Witness ==
    /\ Instances = {1, 2}
    /\ kernel_address[1] = Some(131072) /\ kernel_address[2] = Some(65536)
    /\ kernel_exists[1] = Some(TRUE) /\ kernel_exists[2] = Some(FALSE)
    /\ apps_start_address[1] = Some(196608) /\ apps_start_address[2] = Some(32768)

\* a buffer of 9+N bytes with length byte N in 1..55 and valid UTF-8 content
RoundTripInput(r) ==
    /\ Len(r) >= 9
    /\ r[9] \in 1..55
    /\ Len(r) = 9 + r[9]
    /\ decode_utf8(SubSeq(r, 1, 8)).ok
    /\ decode_utf8(SubSeq(r, 10, Len(r))).ok

\* C13: a 9+N-byte buffer with valid UTF-8 content decodes to a record; the record
\* re-encoded (key zero-padded to 8 bytes, length byte, value) decodes to the same
\* key/value pair.
C13_CodecRoundTrip ==
    [][( /\ decoded # None
         /\ RoundTripInput(raw)
         /\ last'.op = "_decode_attribute"
         /\ raw' = encode_attribute(decoded[1]) )
            => /\ decoded[1].present
               /\ decoded' = decoded
      ]_vars

\* a round trip has ended on a record whose key and value hold a two-byte character
C13_Witness ==
    /\ last.op = "_decode_attribute"
    /\ decoded # None
    /\ decoded[1].present
    /\ decoded[1].key = <<233, 97>>
    /\ decoded[1].value = <<233>>
    /\ raw = <<195, 169, 97, 0, 0, 0, 0, 0, 2, 195, 169>>

\* C14: bootloader_is_present returns None ("unknown") in every state, makes no
\* transport call and changes neither the session nor the board.
C14_BootloaderPresenceUnknown ==
    [][\A self \in Instances :
        IsCall(last', self, "bootloader_is_present")
            => /\ last'.out = ReturnedNone
               /\ last'.io = <<>>
               /\ UNCHANGED <<args, apps_start_address, board, arch, kernel_address,
                              kernel_exists, attributes, flash>>
      ]_vars

\* "unknown" was answered in a session that knows the kernel to be present
C14_Witness ==
    /\ last.op = "bootloader_is_present"
    /\ last.out = ReturnedNone
    /\ kernel_exists[last.self] = Some(TRUE)

\* the most recent call read the marker from flash, and the read failed
MarkerReadFailed(rec) == rec.io # <<>> /\ LastIo(rec).op = "read_range" /\ ~LastIo(rec).ok

\* C15: when the marker read inside kernel_is_present fails, the failure
\* propagates, kernel_exists stays undetermined and the kernel start address
\* resolved before the read stays cached; the next kernel_is_present call reads
\* the marker again and does not read the attribute table.
C15_MarkerReadFailureNotCached ==
    [][\A self \in Instances :
        /\ (IsCall(last', self, "kernel_is_present") /\ MarkerReadFailed(last'))
            => /\ last'.out = Raised("TransportError")
               /\ kernel_exists'[self] = None
               /\ kernel_address'[self] = Some(LastIo(last').address - 1024)
        /\ ( /\ IsCall(last, self, "kernel_is_present")
             /\ MarkerReadFailed(last)
             /\ IsCall(last', self, "kernel_is_present") )
            => /\ Len(last'.io) = 1
               /\ last'.io[1].op = "read_range"
               /\ last'.io[1].address = kernel_address[self][1] + 1024
               /\ last'.io[1].length = 10
      ]_vars

\* a marker read has just failed after the address was resolved from the table
C15_Witness ==
    /\ last.op = "kernel_is_present"
    /\ Len(last.io) = 2
    /\ MarkerReadFailed(last)
    /\ kernel_exists[last.self] = None
    /\ kernel_address[last.self] = Some(131072)

\* C16: a determined kernel presence comes with a cached kernel start address; it
\* is determined only by kernel_is_present, as the comparison of the 10 bytes read
\* at that address + 1024, and from then on neither of the two changes.
C16_PresenceImpliesAddress ==
    [][\A self \in Instances :
        /\ kernel_exists'[self] # None => kernel_address'[self] # None
        /\ (kernel_exists[self] = None /\ kernel_exists'[self] # None)
            => /\ IsCall(last', self, "kernel_is_present")
               /\ MarkerReadOk(last')
               /\ LastIo(last').address = kernel_address'[self][1] + 1024
               /\ LastIo(last').length = 10
               /\ kernel_exists'[self]
                    = Some(flash[self][kernel_address'[self][1] + 1024] = TOCKKERNEL)
        /\ kernel_exists[self] # None
            => /\ kernel_exists'[self] = kernel_exists[self]
               /\ kernel_address'[self] = kernel_address[self]
      ]_vars

\* presence was just determined at the default address, where no marker lies
C16_Witness ==
    /\ last.op = "kernel_is_present"
    /\ MarkerReadOk(last)
    /\ kernel_address[last.self] = Some(65536)
    /\ kernel_exists[last.self] = Some(FALSE)
    /\ flash[last.self][66560] # TOCKKERNEL

\* C17: get_apps_start_address leaves kernel_address and kernel_exists alone,
\* get_kernel_start_address leaves apps_start_address and kernel_exists alone,
\* kernel_is_present leaves apps_start_address alone; none of them, nor
\* get_board_name / get_board_arch, changes board or arch or writes to the board.
C17_CachesIndependent ==
    [][\A self \in Instances :
        /\ IsCall(last', self, "get_apps_start_address")
            => UNCHANGED <<kernel_address, kernel_exists>>
        /\ IsCall(last', self, "get_kernel_start_address")
            => UNCHANGED <<apps_start_address, kernel_exists>>
        /\ IsCall(last', self, "kernel_is_present")
            => UNCHANGED apps_start_address
        /\ ( /\ last'.self = self
             /\ last'.op \in {"get_apps_start_address", "get_kernel_start_address",
                              "kernel_is_present", "get_board_name", "get_board_arch"} )
            => /\ UNCHANGED <<board, arch, attributes, flash>>
               /\ \A i \in 1..Len(last'.io) :
                    last'.io[i].op \in {"get_all_attributes", "read_range"}
      ]_vars

\* the apps address was just resolved from the table in a session whose kernel
\* address and kernel presence are cached
C17_Witness ==
    /\ last.op = "get_apps_start_address"
    /\ AttrReadOk(last)
    /\ apps_start_address[last.self] = Some(32768)
    /\ kernel_address[last.self] = Some(131072)
    /\ kernel_exists[last.self] = Some(TRUE)
    /\ board[last.self] = Some("hail")

====
